---- MODULE Spec2Model ----
(***************************************************************************)
(* Model of rueuntal/neutral_mete_comparison: the SSNT individual-size     *)
(* distributions, the per-species joint likelihoods, the per-site fit      *)
(* writers and the bootstrap procedures of ssnt_mete_comp.py and           *)
(* ssnt_mete_comparison.py.                                                *)
(*                                                                         *)
(* Numbers.  The code computes in floating point with exp, log and         *)
(* rational powers.  The model computes exactly on the numbers             *)
(*        (n / d) * L^e,      L = ln 2,                                    *)
(* on which exp, log and the powers the code takes can be evaluated        *)
(* without rounding: exp(k*L) = 2^k, log(2^k) = k*L.  A result that leaves *)
(* this grid is kept as an opaque finite real of known or unknown sign.    *)
(* The IEEE values nan, +inf, -inf that numpy produces and the Python      *)
(* exceptions the code can raise are values of the same domain.            *)
(***************************************************************************)
EXTENDS Integers, Sequences, FiniteSets, TLC

----------------------------------------------------------------------------
(* Exact numbers *)

Abs(x) == IF x < 0 THEN -x ELSE x

Sgn(x) == IF x < 0 THEN -1 ELSE IF x = 0 THEN 0 ELSE 1

RECURSIVE Gcd(_, _)
Gcd(a, b) == IF b = 0 THEN a ELSE Gcd(b, a % b)

RECURSIVE IPow(_, _)
IPow(b, k) == IF k = 0 THEN 1 ELSE b * IPow(b, k - 1)

\* Whether a * b can be tracked exactly.
Fits(a, b) == a = 0 \/ b = 0 \/ Abs(a) <= 1073741823 \div Abs(b)

\* b^k when it can be tracked exactly, else -1 (b > 0).
RECURSIVE SafePow(_, _)
SafePow(b, k) ==
    IF k = 0 THEN 1
    ELSE LET r == SafePow(b, k - 1)
         IN  IF r < 0 \/ ~Fits(b, r) THEN -1 ELSE b * r

\* A number: k is "fin" (n/d * L^e), "opq" (a finite real off the grid or too
\* long to track, e its sign, 2 when the sign is not known), "inf" (e its sign), "nan", "unk"
\* (finite or nan), or the name of the Python exception raised.
Mk(k, n, d, e) == [k |-> k, n |-> n, d |-> d, e |-> e]

Fin(n, d, e) ==
    IF n = 0 THEN Mk("fin", 0, 1, 0)
    ELSE LET g == Gcd(Abs(n), Abs(d))
             s == IF d < 0 THEN -1 ELSE 1
         IN  Mk("fin", s * (n \div g), s * (d \div g), e)

Rat(n, d) == Fin(n, d, 0)
Int2Num(n) == Fin(n, 1, 0)
Opq(s) == Mk("opq", 0, 1, s)
Inf(s) == Mk("inf", 0, 1, s)
NaN == Mk("nan", 0, 1, 0)
Unk == Mk("unk", 0, 1, 0)
Raise(what) == Mk(what, 0, 1, 0)

IsErr(x) == x.k \notin {"fin", "opq", "inf", "nan", "unk"}
IsFin(x) == x.k = "fin"
IsZero(x) == x.k = "fin" /\ x.n = 0
\* A finite real number: what a caller can use as a likelihood or a size.
IsFinite(x) == x.k \in {"fin", "opq"}

\* The sign: -1, 0, 1, or 2 when it is not known.
SignOf(x) ==
    CASE x.k = "fin" -> Sgn(x.n)
      [] x.k = "opq" -> x.e
      [] x.k = "inf" -> x.e
      [] OTHER -> 2

SMul(s, t) == IF s = 0 \/ t = 0 THEN 0 ELSE IF s = 2 \/ t = 2 THEN 2 ELSE s * t

\* Errors propagate (the first operand's first), then nan, then unk.
Strict2(x, y, v) ==
    CASE IsErr(x) -> x
      [] IsErr(y) -> y
      [] x.k = "nan" \/ y.k = "nan" -> NaN
      [] x.k = "unk" \/ y.k = "unk" -> Unk
      [] OTHER -> v

Strict1(x, v) ==
    CASE IsErr(x) -> x
      [] x.k = "nan" -> NaN
      [] x.k = "unk" -> Unk
      [] OTHER -> v

Neg(x) ==
    Strict1(x, CASE x.k = "fin" -> Fin(-x.n, x.d, x.e)
                 [] x.k = "opq" -> Opq(IF x.e = 2 THEN 2 ELSE -x.e)
                 [] OTHER -> Inf(-x.e))

Mul(x, y) ==
    Strict2(x, y,
        CASE x.k = "fin" /\ y.k = "fin" ->
                IF Fits(x.n, y.n) /\ Fits(x.d, y.d)
                THEN Fin(x.n * y.n, x.d * y.d, x.e + y.e)
                ELSE Opq(Sgn(x.n) * Sgn(y.n))
          [] x.k = "inf" \/ y.k = "inf" ->
                IF IsZero(x) \/ IsZero(y) THEN NaN
                ELSE IF SMul(SignOf(x), SignOf(y)) = 2 THEN Unk
                ELSE Inf(SMul(SignOf(x), SignOf(y)))
          [] OTHER -> IF IsZero(x) \/ IsZero(y) THEN Int2Num(0)
                      ELSE Opq(SMul(SignOf(x), SignOf(y))))

Add(x, y) ==
    Strict2(x, y,
        CASE x.k = "fin" /\ y.k = "fin" ->
                IF x.n = 0 THEN y
                ELSE IF y.n = 0 THEN x
                ELSE IF x.e = y.e /\ Fits(x.n, y.d) /\ Fits(y.n, x.d) /\ Fits(x.d, y.d)
                     THEN Fin(x.n * y.d + y.n * x.d, x.d * y.d, x.e)
                ELSE Opq(IF Sgn(x.n) = Sgn(y.n) THEN Sgn(x.n) ELSE 2)
          [] x.k = "inf" /\ y.k = "inf" -> IF x.e = y.e THEN x ELSE NaN
          [] x.k = "inf" -> x
          [] y.k = "inf" -> y
          [] OTHER -> IF IsZero(x) THEN y
                      ELSE IF IsZero(y) THEN x
                      ELSE Opq(IF SignOf(x) = SignOf(y) THEN SignOf(x) ELSE 2))

Sub(x, y) == Add(x, Neg(y))

\* 1/y for y # 0.
Recip(y) ==
    CASE y.k = "fin" -> Fin(y.d, y.n, -y.e)
      [] y.k = "opq" -> y
      [] OTHER -> Int2Num(0)

\* x / y where an operand is a numpy float: a zero divisor gives inf or nan
\* with a warning, never an exception.
NpDiv(x, y) ==
    Strict2(x, y,
        IF IsZero(y)
        THEN (IF IsZero(x) THEN NaN
              ELSE IF SignOf(x) = 2 THEN Unk ELSE Inf(SignOf(x)))
        ELSE IF x.k = "inf" /\ y.k = "inf" THEN NaN
        ELSE Mul(x, Recip(y)))

\* x / y on plain Python numbers: a zero divisor raises ZeroDivisionError.
PyDiv(x, y) ==
    Strict2(x, y, IF IsZero(y) THEN Raise("ZeroDivisionError") ELSE NpDiv(x, y))

\* x < y on the numbers the code compares (sizes against the lower bound).
Lt(x, y) == SignOf(Sub(x, y)) = -1

Ge(x, y) == SignOf(Sub(x, y)) \in {0, 1}

\* 2^j = m for some j (the grid's exact logarithms).
IsPow2(m) == \E j \in 0..30 : IPow(2, j) = m

Log2(m) == CHOOSE j \in 0..30 : IPow(2, j) = m

\* The k-th root of m when it is an integer, else -1.
IRoot(m, k) ==
    LET top == IF m < 1000 THEN m ELSE 1000
    IN  IF \E r \in 0..top : IPow(r, k) = m
        THEN CHOOSE r \in 0..top : IPow(r, k) = m
        ELSE -1

\* np.exp
Exp(x) ==
    Strict1(x, CASE x.k = "fin" ->
                      IF x.n = 0 THEN Int2Num(1)
                      ELSE IF x.e = 1 /\ x.d = 1 /\ Abs(x.n) <= 30
                           THEN (IF x.n > 0 THEN Rat(IPow(2, x.n), 1)
                                 ELSE Rat(1, IPow(2, -x.n)))
                      ELSE Opq(1)
                 [] x.k = "opq" -> Opq(1)
                 [] OTHER -> IF x.e = 1 THEN Inf(1) ELSE Int2Num(0))

\* np.log: log(0) is -inf and the log of a negative number is nan, each with
\* a warning and without an exception.
Log(x) ==
    Strict1(x, CASE x.k = "fin" ->
                      IF x.n < 0 THEN NaN
                      ELSE IF x.n = 0 THEN Inf(-1)
                      ELSE IF x.e # 0 THEN Opq(2)
                      ELSE IF x.n = 1 /\ x.d = 1 THEN Int2Num(0)
                      ELSE IF x.d = 1 /\ IsPow2(x.n) THEN Fin(Log2(x.n), 1, 1)
                      ELSE IF x.n = 1 /\ IsPow2(x.d) THEN Fin(-Log2(x.d), 1, 1)
                      ELSE Opq(IF x.n > x.d THEN 1 ELSE -1)
                 [] x.k = "opq" ->
                      IF x.e = 1 THEN Opq(2) ELSE IF x.e = -1 THEN NaN ELSE Unk
                 [] OTHER -> IF x.e = 1 THEN Inf(1) ELSE NaN)

\* x ** (an / ad) on numpy floats, ad > 0.
Pow(x, an, ad) ==
    Strict1(x,
        IF an = 0 THEN Int2Num(1)
        ELSE CASE x.k = "fin" ->
                    IF x.n = 0 THEN (IF an > 0 THEN Int2Num(0) ELSE Inf(1))
                    ELSE IF x.n < 0
                         THEN (IF ad # 1 THEN NaN
                               ELSE IF SafePow(-x.n, Abs(an)) < 0 \/ SafePow(x.d, Abs(an)) < 0
                               THEN Opq(IF an % 2 = 0 THEN 1 ELSE -1)
                               ELSE IF an > 0
                               THEN Fin(IPow(x.n, an), IPow(x.d, an), x.e * an)
                               ELSE Fin(IPow(x.d, -an), IPow(x.n, -an), x.e * an))
                    ELSE LET rn == IRoot(x.n, ad)
                             rd == IRoot(x.d, ad)
                         IN  IF rn < 0 \/ rd < 0 \/ (x.e * an) % ad # 0 THEN Opq(1)
                             ELSE IF SafePow(rn, Abs(an)) < 0 \/ SafePow(rd, Abs(an)) < 0
                                  THEN Opq(1)
                             ELSE IF an > 0
                                  THEN Fin(IPow(rn, an), IPow(rd, an), (x.e * an) \div ad)
                                  ELSE Fin(IPow(rd, -an), IPow(rn, -an), (x.e * an) \div ad)
               [] x.k = "opq" ->
                    IF x.e = 1 THEN Opq(1) ELSE IF ad = 1 THEN Opq(2) ELSE Unk
               [] OTHER ->
                    IF x.e = 1 THEN (IF an > 0 THEN Inf(1) ELSE Int2Num(0))
                    ELSE IF ad = 1 THEN (IF an > 0 THEN Unk ELSE Int2Num(0))
                    ELSE NaN)

One == Int2Num(1)

Zero == Int2Num(0)

\* k * ln 2
Ln2(k) == Fin(k, 1, 1)

----------------------------------------------------------------------------
(* Distribution primitives *)

\* A distribution object: its class, a rational exponent an/ad (k of the
\* Weibull form, alpha of the bounded form) and a parameter (scale, lam, par).
\* ok is FALSE when __init__ raised; par then holds the exception.
DistObj(cls, an, ad, par) ==
    [cls |-> cls, an |-> an, ad |-> ad, par |-> par, ok |-> ~IsErr(par)]

\* ssnt_isd.__init__: self.scale = 1 / d_over_g
ssnt_isd_init(d_over_g) == DistObj("ssnt_isd", 1, 1, PyDiv(One, d_over_g))

\* ssnt_isd_transform.__init__: self.k = 1/3 (true division), lam = d_over_g ** 3
ssnt_isd_transform_init(d_over_g) ==
    DistObj("ssnt_isd_transform", 1, 3, Pow(d_over_g, 3, 1))

\* ssnt_isd_bounded.__init__: alpha and par are stored as given, a = 1
ssnt_isd_bounded_init(an, ad, par) == DistObj("ssnt_isd_bounded", an, ad, par)

\* The lower bound self.a of ssnt_isd_bounded.
LowerBound == One

\* scipy's expon with scale = self.scale: nan for a scale that is not
\* positive, 0 below the support.
expon_pdf(x, scale) ==
    IF SignOf(scale) # 1 THEN Strict1(scale, NaN)
    ELSE IF Lt(x, Zero) THEN Zero
    ELSE NpDiv(Exp(Neg(NpDiv(x, scale))), scale)

expon_cdf(x, scale) ==
    IF SignOf(scale) # 1 THEN Strict1(scale, NaN)
    ELSE IF Lt(x, Zero) THEN Zero
    ELSE Sub(One, Exp(Neg(NpDiv(x, scale))))

\* ssnt_isd.ppf: -self.scale * np.log(1 - np.array(q))
ssnt_isd_ppf(dist, q) == Mul(Neg(dist.par), Log(Sub(One, q)))

\* ssnt_isd_transform.pdf:
\*   k / lam * (x / lam) ** (k - 1) * exp(-(x / lam) ** k)
ssnt_isd_transform_pdf(dist, x) ==
    LET k == Rat(dist.an, dist.ad)
        r == NpDiv(x, dist.par)
    IN  Mul(Mul(NpDiv(k, dist.par), Pow(r, dist.an - dist.ad, dist.ad)),
            Exp(Neg(Pow(r, dist.an, dist.ad))))

\* ssnt_isd_transform.cdf: 1 - exp(-(x / lam) ** k)
ssnt_isd_transform_cdf(dist, x) ==
    Sub(One, Exp(Neg(Pow(NpDiv(x, dist.par), dist.an, dist.ad))))

\* ssnt_isd_transform.ppf: lam * (log(1 / (1 - q)) ** (1 / k))
ssnt_isd_transform_ppf(dist, q) ==
    Mul(dist.par, Pow(Log(NpDiv(One, Sub(One, q))), dist.ad, dist.an))

\* A faulty pdf of the bounded form: the Jacobian taken as x ** alpha.
ssnt_isd_bounded_pdf_alpha_power(dist, x) ==
    IF Lt(x, LowerBound) THEN Zero
    ELSE Mul(Mul(Mul(dist.par, Rat(dist.an, dist.ad)),
                 Exp(Mul(Neg(dist.par), Sub(Pow(x, dist.an, dist.ad), One)))),
             Pow(x, dist.an, dist.ad))

\* ssnt_isd_bounded.pdf:
\*   0 below a, else par * alpha * exp(-par * (x ** alpha - 1)) * x ** (alpha - 1)
ssnt_isd_bounded_pdf(dist, x) ==
    IF Lt(x, LowerBound) THEN Zero
    ELSE Mul(Mul(Mul(dist.par, Rat(dist.an, dist.ad)),
                 Exp(Mul(Neg(dist.par), Sub(Pow(x, dist.an, dist.ad), One)))),
             Pow(x, dist.an - dist.ad, dist.ad))

\* ssnt_isd_bounded.cdf: 0 below a, else 1 - exp(-par * (x ** alpha - 1))
ssnt_isd_bounded_cdf(dist, x) ==
    IF Lt(x, LowerBound) THEN Zero
    ELSE Sub(One, Exp(Mul(Neg(dist.par), Sub(Pow(x, dist.an, dist.ad), One))))

\* A faulty ppf of the bounded form: the lower bound left out.
ssnt_isd_bounded_ppf_unshifted(dist, q) ==
    Pow(NpDiv(Neg(Log(Sub(One, q))), dist.par), dist.ad, dist.an)

\* ssnt_isd_bounded.ppf: (1 - log(1 - q) / par) ** (1 / alpha)
ssnt_isd_bounded_ppf(dist, q) ==
    Pow(Sub(One, NpDiv(Log(Sub(One, q)), dist.par)), dist.ad, dist.an)

\* Dispatch on the object's class, as Python's method lookup does.
pdf(dist, x) ==
    CASE dist.cls = "ssnt_isd" -> expon_pdf(x, dist.par)
      [] dist.cls = "ssnt_isd_transform" -> ssnt_isd_transform_pdf(dist, x)
      [] OTHER -> ssnt_isd_bounded_pdf(dist, x)

cdf(dist, x) ==
    CASE dist.cls = "ssnt_isd" -> expon_cdf(x, dist.par)
      [] dist.cls = "ssnt_isd_transform" -> ssnt_isd_transform_cdf(dist, x)
      [] OTHER -> ssnt_isd_bounded_cdf(dist, x)

ppf(dist, q) ==
    CASE dist.cls = "ssnt_isd" -> ssnt_isd_ppf(dist, q)
      [] dist.cls = "ssnt_isd_transform" -> ssnt_isd_transform_ppf(dist, q)
      [] OTHER -> ssnt_isd_bounded_ppf(dist, q)

----------------------------------------------------------------------------
(* Joint likelihood evaluators *)

\* range(1, m) as the code builds it: empty for m <= 1.
RECURSIVE SumLogRange(_)
SumLogRange(m) ==
    IF m <= 1 THEN Zero ELSE Add(SumLogRange(m - 1), Log(Int2Num(m - 1)))

\* md.trunc_logser.pmf(n, p, N): the collaborator's value phi on the support
\* 1..N and 0 outside it.
trunc_logser_pmf(n, phi, N) == IF 1 <= n /\ n <= N THEN phi ELSE Zero

\* The normalisation of lik_mete_sp:
\*   C = n * lambda2 / (np.exp(-lambda2 * n) - np.exp(-lambda2 * n * E))
mete_C(n, lambda2, E) ==
    NpDiv(Mul(Int2Num(n), lambda2),
          Sub(Exp(Mul(Neg(lambda2), Int2Num(n))),
              Exp(Mul(Mul(Neg(lambda2), Int2Num(n)), Int2Num(E)))))

\* A faulty test: the separate formula is never selected.
lik_mete_sp_never_degenerate(n, epsilon) == FALSE

\* The test that selects the separate formula of lik_mete_sp: n == epsilon.
lik_mete_sp_degenerate(n, epsilon) == Int2Num(n) = epsilon

\* The arguments lik_mete_sp hands to np.log, in the order of evaluation
\* (loglik = True); the non-log branches take no logarithm.
lik_mete_sp_logs(n, epsilon, lambda2, phi, N, E, loglik) ==
    LET C == mete_C(n, lambda2, E)
        phi_n == trunc_logser_pmf(n, phi, N)
    IN  IF ~loglik THEN << >>
        ELSE IF lik_mete_sp_degenerate(n, epsilon) THEN <<C, phi_n>>
        ELSE <<C, Sub(epsilon, Int2Num(n))>>
               \o [i \in 1..(IF n > 1 THEN n - 1 ELSE 0) |-> Int2Num(i)]
               \o <<phi_n>>

\* lik_mete_sp(n, epsilon, S, N, E, loglik) with lambda2 = mete.get_lambda2(S, N, E)
\* and phi the value of the truncated log-series pmf at n.
lik_mete_sp(n, epsilon, lambda2, phi, N, E, loglik) ==
    LET C == mete_C(n, lambda2, E)
        phi_n == trunc_logser_pmf(n, phi, N)
        nn == Int2Num(n)
    IN  IF loglik
        THEN IF lik_mete_sp_degenerate(n, epsilon)
             THEN Add(Sub(Mul(nn, Log(C)),
                          Mul(Mul(Mul(lambda2, nn), epsilon), nn)),
                      Log(phi_n))
             ELSE Add(Sub(Add(Sub(Mul(nn, Log(C)),
                                  Mul(Mul(lambda2, nn), epsilon)),
                              Mul(Int2Num(n - 1), Log(Sub(epsilon, nn)))),
                          SumLogRange(n)),
                      Log(phi_n))
        ELSE IF lik_mete_sp_degenerate(n, epsilon)
             THEN Mul(Mul(Pow(C, n, 1),
                          Exp(Mul(Mul(Mul(Neg(lambda2), nn), nn), epsilon))),
                      phi_n)
             ELSE Raise("AttributeError")

\* lik_ssnt_sp(n, epsilon, S, N, E, loglik) with beta = mete.get_beta(S, N,
\* version = 'untruncated').
lik_ssnt_sp(n, epsilon, beta, N, E, loglik) ==
    LET b_over_d == NpDiv(One, Exp(beta))
        d_over_g == PyDiv(Int2Num(N), Int2Num(E))
        b_over_g == Mul(b_over_d, d_over_g)
        nn == Int2Num(n)
    IN  IF IsErr(d_over_g) THEN d_over_g
        ELSE IF loglik
        THEN Add(Sub(Add(Sub(Neg(Log(epsilon)), Mul(d_over_g, epsilon)),
                         Mul(nn, Log(Mul(b_over_g, epsilon)))),
                     SumLogRange(n + 1)),
                 Log(NpDiv(Int2Num(-1), Log(Sub(One, b_over_d)))))
        ELSE IF IsZero(epsilon) THEN Raise("ZeroDivisionError")
        ELSE Raise("AttributeError")

\* The arguments lik_ssnt_sp hands to np.log (loglik = True).
lik_ssnt_sp_logs(n, epsilon, beta, N, E, loglik) ==
    LET b_over_d == NpDiv(One, Exp(beta))
        d_over_g == PyDiv(Int2Num(N), Int2Num(E))
        b_over_g == Mul(b_over_d, d_over_g)
    IN  IF IsErr(d_over_g) \/ ~loglik THEN << >>
        ELSE <<epsilon, Mul(b_over_g, epsilon)>>
               \o [i \in 1..(IF n > 0 THEN n ELSE 0) |-> Int2Num(i)]
               \o <<Sub(One, b_over_d), NpDiv(Int2Num(-1), Log(Sub(One, b_over_d)))>>

----------------------------------------------------------------------------
(* Census data and state variables *)

\* Bounds of the model.
MaxNiter == 2
MaxCalls == 2

\* Defaults of clean_data_agsne and of the cutoff arguments.
cutoff_sp == 9
cutoff_genera == 4
cutoff_default == 9
\* max_removal = 0.1 = MaxRemovalNum / MaxRemovalDen
MaxRemovalNum == 1
MaxRemovalDen == 10

Range(f) == {f[i] : i \in DOMAIN f}

RECURSIVE SeqSum(_)
SeqSum(sq) == IF sq = << >> THEN Zero ELSE Add(Head(sq), SeqSum(Tail(sq)))

RECURSIVE SeqMin(_)
SeqMin(sq) ==
    IF Len(sq) = 1 THEN sq[1]
    ELSE LET m == SeqMin(Tail(sq)) IN IF sq[1] < m THEN sq[1] ELSE m

\* Insertion of x into an ascending sequence of numbers (np.sort, sorted).
RECURSIVE Insert(_, _)
Insert(x, sq) ==
    IF sq = << >> THEN <<x>>
    ELSE IF ~Lt(Head(sq), x) THEN <<x>> \o sq
    ELSE <<Head(sq)>> \o Insert(x, Tail(sq))

RECURSIVE Sorted(_)
Sorted(sq) == IF sq = << >> THEN << >> ELSE Insert(Head(sq), Sorted(Tail(sq)))

\* One individual of a census: site, species, genus (0 when the species name
\* does not pass the test of clean_data_agsne for a defined genus) and dbh.
Ind(site, sp, gen, dbh) == [site |-> site, sp |-> sp, gen |-> gen, dbh |-> dbh]

\* The i-th species of a site with ng genera: one individual, its dbh a cube
\* multiple of the smallest so that dbh ** (2/3) is exact.
SpInd(site, i, ng, unit) ==
    Ind(site, i, ((i - 1) % ng) + 1,
        unit * (CASE i % 3 = 1 -> 1 [] i % 3 = 2 -> 8 [] OTHER -> 27))

\* The censuses wk.import_raw_data returns, one per dataset name.
\*   A: 10 species in 5 genera, one individual each (S = N).
\*   B: as A with two more individuals and one of undefined genus (N > S).
\*   F: 9 species: below the species cutoff.
\*   G: 10 species in 4 genera: below the genus cutoff.
\*   U: 10 species and 2 of 12 individuals of undefined genus.
\*   Z: 10 species, every dbh the same (every scaled size is 1).
\*   P, Q, R, T: 2, 3, 4 and 5 individuals, each of a species of its own.
RawData ==
    [d1 |-> [i \in 1..10 |-> SpInd("A", i, 5, 2)]
            \o [i \in 1..10 |-> SpInd("B", i, 5, 1)]
            \o <<Ind("B", 1, 1, 8), Ind("B", 2, 2, 27), Ind("B", 11, 0, 8)>>
            \o [i \in 1..9 |-> SpInd("F", i, 5, 1)],
     d2 |-> [i \in 1..10 |-> SpInd("G", i, 4, 1)]
            \o [i \in 1..10 |-> SpInd("U", i, 5, 1)]
            \o <<Ind("U", 11, 0, 1), Ind("U", 12, 0, 8)>>
            \o [i \in 1..10 |-> Ind("Z", i, ((i - 1) % 5) + 1, 3)],
     d3 |-> [i \in 1..2 |-> SpInd("P", i, 5, 1)]
            \o [i \in 1..3 |-> SpInd("Q", i, 5, 1)]
            \o [i \in 1..4 |-> SpInd("R", i, 5, 1)]
            \o [i \in 1..5 |-> SpInd("T", i, 5, 1)]]

\* The datasets of the batch run, and the dataset of small sites.
Datasets == {"d1", "d2"}

SmallDatasets == DOMAIN RawData \ Datasets

\* np.unique(dat['site']): the sites of a dataset in ascending order.
SiteOrder == <<"A", "B", "F", "G", "P", "Q", "R", "T", "U", "Z">>

SitesOf(dat_name) ==
    SelectSeq(SiteOrder, LAMBDA s : \E i \in DOMAIN RawData[dat_name] :
                                        RawData[dat_name][i].site = s)

\* dat[dat['site'] == site]
SiteData(dat_name, site) == SelectSeq(RawData[dat_name], LAMBDA r : r.site = site)

\* None, or a structured array.
None == [none |-> TRUE, rows |-> << >>]
Arr(rows) == [none |-> FALSE, rows |-> rows]

\* clean_data_agsne(raw_data_site, cutoff_genera, cutoff_sp, max_removal)
clean_data_agsne(raw_data_site, cg, cs) ==
    LET counter == Len(SelectSeq(raw_data_site, LAMBDA r : r.gen = 0))
        out == SelectSeq(raw_data_site, LAMBDA r : r.gen # 0)
    IN  IF counter * MaxRemovalDen <= MaxRemovalNum * Len(raw_data_site)
        THEN IF Cardinality({r.sp : r \in Range(out)}) > cs
                /\ Cardinality({r.gen : r \in Range(out)}) > cg
             THEN Arr(out)
             ELSE None
        ELSE None

\* dbh / min(dbh) of a structured array, in row order.
dbh_scaled_of(rows) ==
    LET m == SeqMin([i \in DOMAIN rows |-> rows[i].dbh])
    IN  [i \in DOMAIN rows |-> Rat(rows[i].dbh, m)]

\* get_GSNE(raw_data_site): subscripting None raises TypeError.
get_GSNE(clean) ==
    IF clean.none
    THEN [err |-> "TypeError", G |-> 0, S |-> 0, N |-> 0, E |-> Zero]
    ELSE [err |-> "ok",
          G |-> Cardinality({r.gen : r \in Range(clean.rows)}),
          S |-> Cardinality({r.sp : r \in Range(clean.rows)}),
          N |-> Len(clean.rows),
          E |-> SeqSum([i \in DOMAIN clean.rows |->
                          Pow(dbh_scaled_of(clean.rows)[i], 2, 1)])]

\* clean_data_agsne(dat_site) with its defaults, for every site of every
\* dataset (evaluated once).
clean_site ==
    [d \in Datasets |-> [s \in Range(SitesOf(d)) |->
        clean_data_agsne(SiteData(d, s), cutoff_genera, cutoff_sp)]]

\* get_GSNE(clean_data_agsne(dat_site)) for every site (evaluated once).
gsne_site == [d \in Datasets |-> [s \in Range(SitesOf(d)) |-> get_GSNE(clean_site[d][s])]]

\* The closed-form rate N / (sum(size ** alpha) - N) of the bounded form.
fit_par(sizes, an, ad) ==
    NpDiv(Int2Num(Len(sizes)),
          Sub(SeqSum([i \in DOMAIN sizes |-> Pow(sizes[i], an, ad)]),
              Int2Num(Len(sizes))))

----------------------------------------------------------------------------
(* Output files *)

\* A field of an output row: a string, a number, or a statistic of a bootstrap
\* run (v = 0: of the observed data, v = i: of the i-th replicate).
F_str(str) == [t |-> "str", s |-> str, v |-> Zero]
F_num(v) == [t |-> "num", s |-> "", v |-> v]
F_stat(kind, i) == [t |-> "stat", s |-> kind, v |-> Int2Num(i)]

\* A faulty append: the file is opened for writing, so what it held is lost.
FileAppend_truncating(fs, name, rows) ==
    [f \in DOMAIN fs \cup {name} |-> IF f = name THEN rows ELSE fs[f]]

\* open(name, 'ab') / open(name, 'a') followed by the writes and close():
\* the file is created when missing and the rows go after what it holds.
FileAppend(fs, name, rows) ==
    [f \in DOMAIN fs \cup {name} |->
        IF f = name THEN (IF name \in DOMAIN fs THEN fs[name] ELSE << >>) \o rows
        ELSE fs[f]]

\* open(name, 'wb') followed by the writes and close(): what the file held is
\* dropped.
FileOverwrite(fs, name, rows) ==
    [f \in DOMAIN fs \cup {name} |-> IF f = name THEN rows ELSE fs[f]]

\* wk.write_to_file(path, content): one line appended to the file.
write_to_file(fs, name, row) == FileAppend(fs, name, <<row>>)

\* The outcome of a call: the files after it, "ok" or the exception that left
\* it, and the rows it handed to a writer.
Outcome(fs, status, written) == [files |-> fs, status |-> status, written |-> written]

\* The species of a structured array in ascending order (np.unique).
RECURSIVE SetToSeq(_)
SetToSeq(S) ==
    IF S = {} THEN << >>
    ELSE LET m == CHOOSE x \in S : \A y \in S : x <= y
         IN  <<m>> \o SetToSeq(S \ {m})

unique_sp(rows) == SetToSeq({r.sp : r \in Range(rows)})

Reverse(sq) == [i \in DOMAIN sq |-> sq[Len(sq) + 1 - i]]

\* (x + 0.5) / N for x in range(N)
scaled_rank(N) == [i \in 1..N |-> Rat(2 * (i - 1) + 1, 2 * N)]

\* The results array of get_obs_pred_sad: site, observed abundance in
\* descending order, the collaborator's predicted abundance.
sad_results(site, clean) ==
    LET sps == unique_sp(clean.rows)
        obs == Reverse(Sorted([i \in DOMAIN sps |->
                 Int2Num(Len(SelectSeq(clean.rows, LAMBDA r : r.sp = sps[i])))]))
    IN  [i \in DOMAIN sps |-> <<F_str(site), F_num(obs[i]), F_num(Opq(1))>>]

sad_results_site ==
    [d \in Datasets |-> [s \in Range(SitesOf(d)) |->
        IF clean_site[d][s].none THEN << >> ELSE sad_results(s, clean_site[d][s])]]

\* get_obs_pred_sad(raw_data_site, dataset_name, model, out_dir), called with
\* the cleaned data of a site
get_obs_pred_sad(fs, dat_name, site, model) ==
    LET g == gsne_site[dat_name][site]
        results == sad_results_site[dat_name][site]
    IN  IF g.err # "ok" THEN Outcome(fs, g.err, << >>)
        ELSE IF model = "ssnt"
        THEN Outcome(FileAppend(FileAppend(fs, <<dat_name, "_obs_pred_rad_", "ssnt_1", ".csv">>, results),
                                <<dat_name, "_obs_pred_rad_", "ssnt_0", ".csv">>, results),
                     "ok", results)
        ELSE Outcome(FileAppend(fs, <<dat_name, "_obs_pred_rad_", model, ".csv">>, results),
                     "ok", results)

\* The exponent alpha of a model name, as a pair (1 for 'ssnt_0', 2/3 for 'ssnt_1').
alpha_of(model) == IF model = "ssnt_1" THEN <<2, 3>> ELSE <<1, 1>>

\* The results array of get_obs_pred_isd for 'ssnt_0', 'ssnt_1' and 'agsne'.
isd_results(site, clean, model) ==
    LET N == Len(clean.rows)
        dbh_scaled == dbh_scaled_of(clean.rows)
        a == alpha_of(model)
        isd_ssnt == ssnt_isd_bounded_init(a[1], a[2], fit_par(dbh_scaled, a[1], a[2]))
        pred == IF model = "agsne" THEN [i \in 1..N |-> Opq(1)]
                ELSE [i \in 1..N |-> ppf(isd_ssnt, scaled_rank(N)[i])]
        obs == Sorted(dbh_scaled)
    IN  [i \in 1..N |-> <<F_str(site), F_num(obs[i]), F_num(pred[i])>>]

isd_results_site ==
    [d \in Datasets |-> [s \in Range(SitesOf(d)) |-> [m \in {"ssnt_0", "ssnt_1", "agsne"} |->
        IF clean_site[d][s].none THEN << >> ELSE isd_results(s, clean_site[d][s], m)]]]

\* get_obs_pred_isd(raw_data_site, dataset_name, model, out_dir), called with
\* the cleaned data of a site
get_obs_pred_isd(fs, dat_name, site, model) ==
    LET g == gsne_site[dat_name][site]
        results == isd_results_site[dat_name][site][model]
    IN  IF g.err # "ok" THEN Outcome(fs, g.err, << >>)
        \* get_mete_pred_isd_approx takes (S, N, E) and is called with four arguments
        ELSE IF model = "asne" THEN Outcome(fs, "TypeError", << >>)
        ELSE Outcome(FileAppend(fs, <<dat_name, "_obs_pred_isd_", model, ".csv">>, results),
                     "ok", results)

\* The distribution get_obs_pred_isd fits for 'ssnt_0' and 'ssnt_1':
\*   par = N / (sum(dbh_scaled ** alpha) - N); ssnt_isd_bounded(alpha, par)
ssnt_fit(rows, model) ==
    ssnt_isd_bounded_init(alpha_of(model)[1], alpha_of(model)[2],
        fit_par(dbh_scaled_of(rows), alpha_of(model)[1], alpha_of(model)[2]))

\* The distribution get_ssnt_obs_pred_isd fits on the squared sizes of a site.
ssnt_fit_dbh2(rows, scaling) ==
    IF scaling
    THEN ssnt_isd_transform_init(
             NpDiv(Int2Num(Len(rows)),
                   SeqSum([i \in DOMAIN rows |-> Pow(dbh_scaled_of(rows)[i], 2, 3)])))
    ELSE ssnt_isd_init(
             NpDiv(Int2Num(Len(rows)),
                   SeqSum([i \in DOMAIN rows |-> Pow(dbh_scaled_of(rows)[i], 2, 1)])))

\* The mean of a sequence of numbers.
Mean(sq) == NpDiv(SeqSum(sq), Int2Num(Len(sq)))

\* numeric integration of x ** 2 * pdf(x) over [1, inf): a positive real for
\* a finite positive par.
expected_square(dist) == IF IsFinite(dist.par) /\ SignOf(dist.par) = 1 THEN Opq(1) ELSE NaN

\* The results array of get_obs_pred_sdr.
sdr_results(site, clean, model) ==
    LET scaled_d == dbh_scaled_of(clean.rows)
        a == IF model = "ssnt_1" THEN <<2, 3>> ELSE <<1, 1>>
        iisd_ssnt == ssnt_isd_bounded_init(a[1], a[2], fit_par(scaled_d, a[1], a[2]))
        sps == unique_sp(clean.rows)
        idx(sp) == {i \in DOMAIN clean.rows : clean.rows[i].sp = sp}
        obs == [j \in DOMAIN sps |->
                  Mean([i \in 1..Cardinality(idx(sps[j])) |->
                          Pow(scaled_d[SetToSeq(idx(sps[j]))[i]], 2, 1)])]
        pred == [j \in DOMAIN sps |->
                  IF model \in {"ssnt_0", "ssnt_1"} THEN expected_square(iisd_ssnt)
                  ELSE Opq(1)]
    IN  [i \in DOMAIN sps |-> <<F_str(site), F_num(obs[i]), F_num(pred[i])>>]

sdr_results_site ==
    [d \in Datasets |-> [s \in Range(SitesOf(d)) |-> [m \in {"ssnt_0", "ssnt_1", "asne", "agsne"} |->
        IF clean_site[d][s].none THEN << >> ELSE sdr_results(s, clean_site[d][s], m)]]]

\* get_obs_pred_sdr(raw_data_site, dataset_name, model, out_dir), called with
\* the cleaned data of a site
get_obs_pred_sdr(fs, dat_name, site, model) ==
    LET g == gsne_site[dat_name][site]
        results == sdr_results_site[dat_name][site][model]
    IN  IF g.err # "ok" THEN Outcome(fs, g.err, << >>)
        ELSE Outcome(FileAppend(fs, <<dat_name, "_obs_pred_sdr_", model, ".csv">>, results),
                     "ok", results)

\* get_ssnt_obs_pred_isd(raw_data, dataset_name, scaling, data_dir, cutoff):
\* the rows of one site, empty when the site has no more than cutoff species.
ssnt_obs_pred_site(dat_name, site, scaling, cutoff) ==
    LET subdat == SiteData(dat_name, site)
        dbh_scale == Sorted(dbh_scaled_of(subdat))
        S0 == Cardinality({r.sp : r \in Range(subdat)})
        N0 == Len(dbh_scale)
        dbh2_obs == Sorted([i \in 1..N0 |-> Pow(dbh_scale[i], 2, 1)])
        isd_dist == IF scaling
                    THEN ssnt_isd_transform_init(
                             NpDiv(Int2Num(N0), SeqSum([i \in 1..N0 |-> Pow(dbh_scale[i], 2, 3)])))
                    ELSE ssnt_isd_init(NpDiv(Int2Num(N0), SeqSum(dbh2_obs)))
    IN  IF S0 > cutoff
        THEN [i \in 1..N0 |-> <<F_str(site), F_num(dbh2_obs[i]),
                                F_num(ppf(isd_dist, scaled_rank(N0)[i]))>>]
        ELSE << >>

RECURSIVE ssnt_obs_pred_rows(_, _, _, _)
ssnt_obs_pred_rows(dat_name, usites, scaling, cutoff) ==
    IF usites = << >> THEN << >>
    ELSE ssnt_obs_pred_site(dat_name, Head(usites), scaling, cutoff)
         \o ssnt_obs_pred_rows(dat_name, Tail(usites), scaling, cutoff)

CutoffArgs == {cutoff_default, cutoff_default + 1}

\* The cutoff arguments of the calls on the dataset of small sites.
MaxSmallCutoff == 4

SmallCutoffs == 0..MaxSmallCutoff

ssnt_obs_pred_all ==
    [d \in Datasets |-> [scaling \in BOOLEAN |-> [cutoff \in CutoffArgs |->
        ssnt_obs_pred_rows(d, SitesOf(d), scaling, cutoff)]]]

\* The file is opened with 'wb'.
get_ssnt_obs_pred_isd(fs, dat_name, scaling, cutoff) ==
    LET rows == ssnt_obs_pred_all[dat_name][scaling][cutoff]
        name == IF scaling THEN <<dat_name, "_obs_pred_isd_ssnt_transform.csv">>
                ELSE <<dat_name, "_obs_pred_isd_ssnt.csv">>
    IN  Outcome(FileOverwrite(fs, name, rows), "ok", rows)

\* mtools.AICc(L, k, n) = 2k - 2L + 2k(k + 1) / (n - k - 1) on Python numbers.
AICc(L, k, n) ==
    Add(Sub(Int2Num(2 * k), Mul(Int2Num(2), L)),
        PyDiv(Int2Num(2 * k * (k + 1)), Int2Num(n - k - 1)))

\* The (dataset, site) pairs in the order the two loops visit them.
RECURSIVE SitePairs(_)
SitePairs(dat_list) ==
    IF dat_list = << >> THEN << >>
    ELSE [i \in DOMAIN SitesOf(Head(dat_list)) |-> <<Head(dat_list), SitesOf(Head(dat_list))[i]>>]
         \o SitePairs(Tail(dat_list))

\* The log-likelihood of the scaled diameters under a fitted distribution:
\*   sum(np.log(dist.pdf(x))) over the individuals
isd_lik_of(dist, dbh_scaled) ==
    SeqSum([i \in DOMAIN dbh_scaled |-> Log(pdf(dist, dbh_scaled[i]))])

\* The two lines of a site: the likelihoods per individual, the AICc values.
isd_lik_lines(dat_name, site, N0, lik_mete, lik_ssnt, lik_ssnt_transform, a1, a2, a3) ==
    [row1 |-> <<F_str(dat_name), F_str(site), F_num(NpDiv(lik_mete, Int2Num(N0))),
                F_num(NpDiv(lik_ssnt, Int2Num(N0))),
                F_num(NpDiv(lik_ssnt_transform, Int2Num(N0)))>>,
     row2 |-> <<F_str(dat_name), F_str(site), F_num(a1), F_num(a2), F_num(a3)>>,
     aicc |-> IF IsErr(a1) THEN a1.k ELSE IF IsErr(a2) THEN a2.k
              ELSE IF IsErr(a3) THEN a3.k ELSE "ok"]

isd_lik_aicc(dat_name, site, N0, lik_mete, lik_ssnt, lik_ssnt_transform) ==
    isd_lik_lines(dat_name, site, N0, lik_mete, lik_ssnt, lik_ssnt_transform,
                  AICc(lik_mete, 3, N0), AICc(lik_ssnt, 2, N0),
                  AICc(lik_ssnt_transform, 2, N0))

\* The body of the site loop of get_isd_lik_three_models for a site above the
\* cutoff; the likelihood under METE is the collaborator's.
isd_lik_fitted(dat_name, site, N0, dbh_scaled) ==
    isd_lik_aicc(dat_name, site, N0, Opq(2),
                 isd_lik_of(ssnt_isd_bounded_init(1, 1, fit_par(dbh_scaled, 1, 1)), dbh_scaled),
                 isd_lik_of(ssnt_isd_bounded_init(2, 3, fit_par(dbh_scaled, 2, 3)), dbh_scaled))

\* S0 of a site: the number of its species in the raw data.
S0_of(dat_site) == Cardinality({r.sp : r \in Range(dat_site)})

\* One site of get_isd_lik_three_models: whether it is above the cutoff, and
\* its two lines.
isd_lik_rows(dat_name, site, cutoff) ==
    [included |-> S0_of(SiteData(dat_name, site)) > cutoff,
     lines |-> isd_lik_fitted(dat_name, site, Len(SiteData(dat_name, site)),
                              dbh_scaled_of(SiteData(dat_name, site)))]

isd_lik_rows_site ==
    [d \in DOMAIN RawData |-> [s \in Range(SitesOf(d)) |->
        [cutoff \in CutoffArgs \cup SmallCutoffs |-> isd_lik_rows(d, s, cutoff)]]]

\* The writes of one site; raises: a collaborator
\* (mete_distributions.psi_epsilon) fails on this site.
isd_lik_write(fs, r, raises) ==
    IF ~r.included THEN Outcome(fs, "ok", << >>)
    ELSE IF raises THEN Outcome(fs, "RuntimeError", << >>)
    ELSE IF r.lines.aicc # "ok"
    THEN Outcome(FileAppend(FileAppend(fs, <<"isd_lik_three_models.txt">>, <<r.lines.row1>>),
                            <<"isd_aicc_three_models.txt">>, << >>),
                 r.lines.aicc, <<r.lines.row1>>)
    ELSE Outcome(FileAppend(FileAppend(fs, <<"isd_lik_three_models.txt">>, <<r.lines.row1>>),
                            <<"isd_aicc_three_models.txt">>, <<r.lines.row2>>),
                 "ok", <<r.lines.row1, r.lines.row2>>)

isd_lik_site(fs, dat_name, site, cutoff, raises) ==
    isd_lik_write(fs, isd_lik_rows_site[dat_name][site][cutoff], raises)

\* lik_sp_abd_dbh_ssnt(sad_par, isd_dist, n, dbh_list, log); the log-series
\* log-pmf is the collaborator's: the log of a probability.
lik_sp_abd_dbh_ssnt(isd_dist, n, dbh_list, log) ==
    IF log THEN Add(Opq(-1), SeqSum([i \in DOMAIN dbh_list |-> Log(pdf(isd_dist, dbh_list[i]))]))
    ELSE LET prod[i \in 0..Len(dbh_list)] ==
                 IF i = 0 THEN One ELSE Mul(prod[i - 1], pdf(isd_dist, dbh_list[i]))
         IN  Mul(Exp(Opq(-1)), prod[Len(dbh_list)])

\* lik_sp_abd_dbh_mete(sad_par, sad_upper, iisd_dist, n, dbh_list, log): the
\* log-pmf and the log-pdf are the collaborator's.
lik_sp_abd_dbh_mete(n, dbh_list, log) ==
    IF log THEN Add(Opq(-1), SeqSum([i \in DOMAIN dbh_list |->
                                Add(Opq(2), Log(Mul(Int2Num(2), dbh_list[i])))]))
    ELSE LET prod[i \in 0..Len(dbh_list)] ==
                 IF i = 0 THEN One
                 ELSE Mul(prod[i - 1], Exp(Add(Opq(2), Log(Mul(Int2Num(2), dbh_list[i])))))
         IN  Mul(Exp(Opq(-1)), prod[Len(dbh_list)])

\* The scaled diameters of the individuals of one species.
dbh_of_sp(dat_site, dbh_scaled, sp) ==
    [j \in 1..Len(SelectSeq(dat_site, LAMBDA r : r.sp = sp)) |->
        dbh_scaled[SetToSeq({i \in DOMAIN dat_site : dat_site[i].sp = sp})[j]]]

lik_sp_ssnt_sum(isd_dist, dat_site, dbh_scaled, sps) ==
    SeqSum([j \in DOMAIN sps |->
        lik_sp_abd_dbh_ssnt(isd_dist, Len(dbh_of_sp(dat_site, dbh_scaled, sps[j])),
                            dbh_of_sp(dat_site, dbh_scaled, sps[j]), TRUE)])

lik_sp_mete_sum(dat_site, dbh_scaled, sps) ==
    SeqSum([j \in DOMAIN sps |->
        lik_sp_abd_dbh_mete(Len(dbh_of_sp(dat_site, dbh_scaled, sps[j])),
                            dbh_of_sp(dat_site, dbh_scaled, sps[j]), TRUE)])

\* The body of the site loop of get_lik_sp_abd_dbh_three_models for a site
\* above the cutoff: its line.
lik_sp_fitted(dat_name, site, dat_site, dbh_scaled) ==
    <<F_str(dat_name), F_str(site),
      F_num(lik_sp_mete_sum(dat_site, dbh_scaled, unique_sp(dat_site))),
      F_num(lik_sp_ssnt_sum(ssnt_isd_bounded_init(1, 1, fit_par(dbh_scaled, 1, 1)),
                            dat_site, dbh_scaled, unique_sp(dat_site))),
      F_num(lik_sp_ssnt_sum(ssnt_isd_bounded_init(2, 3, fit_par(dbh_scaled, 2, 3)),
                            dat_site, dbh_scaled, unique_sp(dat_site)))>>

\* One site of get_lik_sp_abd_dbh_three_models.
lik_sp_rows(dat_name, site, cutoff) ==
    [included |-> S0_of(SiteData(dat_name, site)) > cutoff,
     row |-> lik_sp_fitted(dat_name, site, SiteData(dat_name, site),
                           dbh_scaled_of(SiteData(dat_name, site)))]

lik_sp_rows_site ==
    [d \in DOMAIN RawData |-> [s \in Range(SitesOf(d)) |->
        [cutoff \in CutoffArgs \cup SmallCutoffs |-> lik_sp_rows(d, s, cutoff)]]]

\* The write of one site; raises: a collaborator
\* (mete_distributions.theta_epsilon, mete.get_beta) fails on this site.
lik_sp_write(fs, r, raises) ==
    IF ~r.included THEN Outcome(fs, "ok", << >>)
    ELSE IF raises THEN Outcome(fs, "RuntimeError", << >>)
    ELSE Outcome(FileAppend(fs, <<"lik_sp_abd_dbh_three_models.txt">>, <<r.row>>),
                 "ok", <<r.row>>)

lik_sp_site(fs, dat_name, site, cutoff, raises) ==
    lik_sp_write(fs, lik_sp_rows_site[dat_name][site][cutoff], raises)

\* The outcome of the passes so far joined with the outcome of one more.
lik_join(before, o) == Outcome(o.files, o.status, before.written \o o.written)

\* One pass of the loop body after the passes before it: nothing is done once
\* a pass has raised, for nothing in the loops catches an exception.
lik_step(which, before, p, cutoff, failing) ==
    IF before.status # "ok" THEN before
    ELSE IF which = "isd"
    THEN lik_join(before, isd_lik_site(before.files, p[1], p[2], cutoff, p \in failing))
    ELSE lik_join(before, lik_sp_site(before.files, p[1], p[2], cutoff, p \in failing))

\* The two nested loops of a likelihood driver: the sites in order.
lik_loop(which, fs, pairs, cutoff, failing) ==
    LET after[i \in 0..Len(pairs)] ==
            IF i = 0 THEN Outcome(fs, "ok", << >>)
            ELSE lik_step(which, after[i - 1], pairs[i], cutoff, failing)
    IN  after[Len(pairs)]

\* get_isd_lik_three_models(dat_list, out_dir, cutoff)
get_isd_lik_three_models(fs, dat_list, cutoff, failing) ==
    lik_loop("isd", fs, SitePairs(dat_list), cutoff, failing)

\* get_lik_sp_abd_dbh_three_models(dat_list, out_dir, cutoff)
get_lik_sp_abd_dbh_three_models(fs, dat_list, cutoff, failing) ==
    lik_loop("sp", fs, SitePairs(dat_list), cutoff, failing)

----------------------------------------------------------------------------
(* Bootstrap procedures *)

\* Whether a distribution object has a native random-variate generator: the
\* scipy and collaborator distributions do, ssnt_isd_bounded defines none.
has_rvs(cls) == cls # "ssnt_isd_bounded"

\* pred_obs[pred_obs['site'] == site] of an observed/predicted file.
site_rows(fs, name, site) == SelectSeq(fs[name], LAMBDA row : row[1].s = site)

\* A faulty loop: one iteration short.
boot_range_short(Niter) == 1..(Niter - 1)

\* range(Niter): the iterations of the bootstrap loop.
boot_range(Niter) == 1..Niter

\* out_list after the loop: the three leading fields, then one statistic
\* appended per iteration.
RECURSIVE boot_append(_, _, _)
boot_append(out_list, kind, iters) ==
    IF iters = {} THEN out_list
    ELSE LET i == CHOOSE x \in iters : \A y \in iters : x <= y
         IN  boot_append(Append(out_list, F_stat(kind, i)), kind, iters \ {i})

out_list_of(dat_name, site, kind, Niter) ==
    boot_append(<<F_str(dat_name), F_str(site), F_stat(kind, 0)>>, kind, boot_range(Niter))

\* What the first lines of every bootstrap procedure do: clean the site,
\* take its state variables, open the observed/predicted file of the model.
\* "ok", or the exception raised.
boot_prologue(fs, dat_name, site, file) ==
    LET g == gsne_site[dat_name][site]
    IN  IF g.err # "ok" THEN g.err
        ELSE IF file \notin DOMAIN fs THEN "IOError"
        \* max() of an empty sequence
        ELSE IF site_rows(fs, file, site) = << >> THEN "ValueError"
        ELSE "ok"

\* The number of observations a replicate of bootstrap_SAD holds: S.
sad_boot_size(g) == g.S

\* bootstrap_SAD(name_site_combo, model, in_dir, out_dir, Niter)
bootstrap_SAD(fs, dat_name, site, model, Niter) ==
    LET g == gsne_site[dat_name][site]
        file == <<dat_name, "_obs_pred_rad_", model, ".csv">>
        pro == boot_prologue(fs, dat_name, site, file)
        pred == site_rows(fs, file, site)
        r2 == out_list_of(dat_name, site, "rsquare", Niter)
        ks == out_list_of(dat_name, site, "ks", Niter)
    IN  IF pro # "ok" THEN Outcome(fs, pro, << >>)
        \* arrays of different lengths do not broadcast
        ELSE IF boot_range(Niter) # {} /\ sad_boot_size(g) # Len(pred)
        THEN Outcome(fs, "ValueError", << >>)
        ELSE Outcome(write_to_file(write_to_file(fs, <<"SAD_bootstrap_", model, "_rsquare.txt">>, r2),
                                   <<"SAD_bootstrap_", model, "_ks.txt">>, ks),
                     "ok", <<r2, ks>>)

\* The number of uniform quantiles a replicate of bootstrap_ISD draws:
\* stats.uniform.rvs(size = S).
isd_boot_size(g) == g.S

\* bootstrap_ISD(name_site_combo, model, in_dir, out_dir, Niter); the two
\* appends of lines 472-473 are taken as the last statements of the loop body.
bootstrap_ISD(fs, dat_name, site, model, Niter) ==
    LET g == gsne_site[dat_name][site]
        file == <<dat_name, "_obs_pred_isd_", model, ".csv">>
        pro == boot_prologue(fs, dat_name, site, file)
        pred == site_rows(fs, file, site)
        r2 == out_list_of(dat_name, site, "rsquare", Niter)
        ks == out_list_of(dat_name, site, "ks", Niter)
    IN  IF pro # "ok" THEN Outcome(fs, pro, << >>)
        ELSE IF boot_range(Niter) # {} /\ isd_boot_size(g) # Len(pred)
        THEN Outcome(fs, "ValueError", << >>)
        ELSE Outcome(write_to_file(write_to_file(fs, <<"ISD_bootstrap_", model, "_rsquare.txt">>, r2),
                                   <<"ISD_bootstrap_", model, "_ks.txt">>, ks),
                     "ok", <<r2, ks>>)

\* The class of the iISD object bootstrap_SDR draws from.
sdr_dist_cls(model) ==
    CASE model \in {"ssnt_0", "ssnt_1"} -> "ssnt_isd_bounded"
      [] model = "asne" -> "theta_epsilon"
      [] OTHER -> "theta_agsne"

\* bootstrap_SDR(name_site_combo, model, in_dir, out_dir, Niter)
bootstrap_SDR(fs, dat_name, site, model, Niter) ==
    LET g == gsne_site[dat_name][site]
        file == <<dat_name, "_obs_pred_sdr_", model, ".csv">>
        pred == site_rows(fs, file, site)
        r2 == out_list_of(dat_name, site, "rsquare", Niter)
    IN  IF g.err # "ok" THEN Outcome(fs, g.err, << >>)
        ELSE IF file \notin DOMAIN fs THEN Outcome(fs, "IOError", << >>)
        \* dist.rvs on an object without rvs
        ELSE IF boot_range(Niter) # {} /\ ~has_rvs(sdr_dist_cls(model))
        THEN Outcome(fs, "AttributeError", << >>)
        ELSE IF boot_range(Niter) # {} /\ g.S # Len(pred)
        THEN Outcome(fs, "ValueError", << >>)
        ELSE Outcome(write_to_file(fs, <<"ISD_bootstrap_", model, "_rsquare.txt">>, r2),
                     "ok", <<r2>>)

\* The class of the SAD object of dist_for_model in bootstrap_SAD.
sad_dist_cls(model) ==
    CASE model \in {"ssnt_0", "ssnt_1"} -> "logser"
      [] model = "asne" -> "trunc_logser"
      [] OTHER -> "sad_agsne"

\* The class of the ISD object of dist_for_model in bootstrap_ISD.
isd_dist_cls(model) ==
    CASE model \in {"ssnt_0", "ssnt_1"} -> "ssnt_isd_bounded"
      [] model = "asne" -> "psi_epsilon_approx"
      [] OTHER -> "psi_agsne"

\* The class of the object a bootstrap procedure samples from.
boot_dist_cls(op, model) ==
    CASE op = "bootstrap_SAD" -> sad_dist_cls(model)
      [] op = "bootstrap_ISD" -> isd_dist_cls(model)
      [] OTHER -> sdr_dist_cls(model)

\* How the loop body of a bootstrap procedure samples: "rvs" (dist.rvs) or
\* "ppf" (sorted uniform quantiles through dist.ppf).
boot_method(op, model) ==
    CASE op = "bootstrap_SAD" -> IF model \in {"agsne", "asne"} THEN "rvs" ELSE "ppf"
      [] op = "bootstrap_ISD" -> "ppf"
      [] OTHER -> "rvs"

\* The observed/predicted file a bootstrap procedure opens.
boot_in_file(op, dat_name, model) ==
    CASE op = "bootstrap_SAD" -> <<dat_name, "_obs_pred_rad_", model, ".csv">>
      [] op = "bootstrap_ISD" -> <<dat_name, "_obs_pred_isd_", model, ".csv">>
      [] OTHER -> <<dat_name, "_obs_pred_sdr_", model, ".csv">>

----------------------------------------------------------------------------
(* The batch driver: one run works through the sites of a dataset for one   *)
(* model with one configured Niter, calling the fit writers, the likelihood *)
(* drivers and the bootstrap procedures in any order.                       *)

VARIABLES
    files,      \* the output directory: file name -> rows
    cfg,        \* the run's dataset, model and Niter
    last,       \* the last call: operation, arguments, outcome
    ncalls,     \* calls made so far
    ev,         \* the last evaluation of a distribution or a likelihood
    pc,         \* worker pool: each worker's position in get_obs_pred_isd
    todo,       \* worker pool: the fields a worker has still to write
    buf,        \* worker pool: the fields in a worker's file buffer
    disk        \* worker pool: the fields of the shared output file

pool == <<pc, todo, buf, disk>>

vars == <<files, cfg, last, ncalls, ev, pc, todo, buf, disk>>

Models == {"ssnt_0", "ssnt_1", "asne", "agsne"}

NoFiles == [f \in {} |-> << >>]

NoCall == [op |-> "none", site |-> "", arg |-> 0, status |-> "ok", written |-> << >>]

NoEval == [fn |-> "none"]

\* No worker pool: the calls are made one after the other.
NoPool ==
    /\ pc = << >>
    /\ todo = << >>
    /\ buf = << >>
    /\ disk = << >>

\* The model argument get_obs_pred_sad takes for a model of the run.
sad_model(model) == IF model \in {"ssnt_0", "ssnt_1"} THEN "ssnt" ELSE model

Call(op, site, arg, o) ==
    /\ ncalls < MaxCalls
    /\ files' = o.files
    /\ last' = [op |-> op, site |-> site, arg |-> arg, status |-> o.status,
                written |-> o.written]
    /\ ncalls' = ncalls + 1
    /\ UNCHANGED <<cfg, ev, pool>>

CallGetObsPredSad ==
    \E site \in Range(SitesOf(cfg.dat)) :
        Call("get_obs_pred_sad", site, 0,
             get_obs_pred_sad(files, cfg.dat, site, sad_model(cfg.model)))

CallGetObsPredIsd ==
    \E site \in Range(SitesOf(cfg.dat)) :
        Call("get_obs_pred_isd", site, 0,
             get_obs_pred_isd(files, cfg.dat, site, cfg.model))

CallGetObsPredSdr ==
    \E site \in Range(SitesOf(cfg.dat)) :
        Call("get_obs_pred_sdr", site, 0,
             get_obs_pred_sdr(files, cfg.dat, site, cfg.model))

CallBootstrapSAD ==
    \E site \in Range(SitesOf(cfg.dat)) :
        Call("bootstrap_SAD", site, cfg.Niter,
             bootstrap_SAD(files, cfg.dat, site, cfg.model, cfg.Niter))

CallBootstrapISD ==
    \E site \in Range(SitesOf(cfg.dat)) :
        Call("bootstrap_ISD", site, cfg.Niter,
             bootstrap_ISD(files, cfg.dat, site, cfg.model, cfg.Niter))

CallBootstrapSDR ==
    \E site \in Range(SitesOf(cfg.dat)) :
        Call("bootstrap_SDR", site, cfg.Niter,
             bootstrap_SDR(files, cfg.dat, site, cfg.model, cfg.Niter))

CallGetSsntObsPredIsd ==
    \E scaling \in BOOLEAN, cutoff \in CutoffArgs :
        Call("get_ssnt_obs_pred_isd", IF scaling THEN "transform" ELSE "", cutoff,
             get_ssnt_obs_pred_isd(files, cfg.dat, scaling, cutoff))

\* The sites on which a collaborator may fail in one call: none, or one.
Failing(dat_list) == {{}} \cup {{p} : p \in Range(SitePairs(dat_list))}

CallGetIsdLik ==
    \E cutoff \in CutoffArgs, failing \in Failing(<<cfg.dat>>) :
        Call("get_isd_lik_three_models",
             IF failing = {} THEN "" ELSE (CHOOSE p \in failing : TRUE)[2], cutoff,
             get_isd_lik_three_models(files, <<cfg.dat>>, cutoff, failing))

CallGetLikSp ==
    \E cutoff \in CutoffArgs, failing \in Failing(<<cfg.dat>>) :
        Call("get_lik_sp_abd_dbh_three_models",
             IF failing = {} THEN "" ELSE (CHOOSE p \in failing : TRUE)[2], cutoff,
             get_lik_sp_abd_dbh_three_models(files, <<cfg.dat>>, cutoff, failing))

Init ==
    /\ files = NoFiles
    /\ cfg \in [dat : Datasets, model : Models, Niter : 0..MaxNiter]
    /\ last = NoCall
    /\ ncalls = 0
    /\ ev = NoEval
    /\ NoPool

Next ==
    \/ CallGetObsPredSad
    \/ CallGetObsPredIsd
    \/ CallGetObsPredSdr
    \/ CallBootstrapSAD
    \/ CallBootstrapISD
    \/ CallBootstrapSDR
    \/ CallGetSsntObsPredIsd
    \/ CallGetIsdLik
    \/ CallGetLikSp

Spec == Init /\ [][Next]_vars

----------------------------------------------------------------------------
(* The likelihood drivers on the dataset of small sites, with cutoffs that   *)
(* let sites of a few individuals in.                                        *)

CallGetIsdLikSmall ==
    \E cutoff \in SmallCutoffs, failing \in Failing(<<cfg.dat>>) :
        Call("get_isd_lik_three_models",
             IF failing = {} THEN "" ELSE (CHOOSE p \in failing : TRUE)[2], cutoff,
             get_isd_lik_three_models(files, <<cfg.dat>>, cutoff, failing))

CallGetLikSpSmall ==
    \E cutoff \in SmallCutoffs, failing \in Failing(<<cfg.dat>>) :
        Call("get_lik_sp_abd_dbh_three_models",
             IF failing = {} THEN "" ELSE (CHOOSE p \in failing : TRUE)[2], cutoff,
             get_lik_sp_abd_dbh_three_models(files, <<cfg.dat>>, cutoff, failing))

InitLik ==
    /\ files = NoFiles
    /\ cfg \in [dat : SmallDatasets, model : {"ssnt_0"}, Niter : {0}]
    /\ last = NoCall
    /\ ncalls = 0
    /\ ev = NoEval
    /\ NoPool

NextLik ==
    \/ CallGetIsdLikSmall
    \/ CallGetLikSpSmall

SpecLik == InitLik /\ [][NextLik]_vars

----------------------------------------------------------------------------
(* One run of bootstrap_SAD or bootstrap_ISD, statement by statement: the    *)
(* lines up to the loop, one pass of the loop body at a time, the two        *)
(* writes.  The run's local variables are the fields of ev.  The output      *)
(* directory holds what the fit writers wrote for the run's dataset and      *)
(* model.                                                                    *)

MaxDraws == 3

\* The levels stats.uniform.rvs is taken to return, in the order drawn.
DrawLevels == <<Rat(7, 8), Rat(1, 2), Rat(1, 3), Rat(3, 4)>>

\* stats.uniform.rvs(size = n): n levels, not yet sorted.
UniformDraws(n) ==
    {[j \in 1..n |-> DrawLevels[((j * a) % Len(DrawLevels)) + 1]] : a \in 0..MaxDraws}

\* wk.get_obs_cdf(obs): the empirical CDF of the observed values, rank / n.
get_obs_cdf(obs) == [j \in DOMAIN obs |-> Rat(j, Len(obs))]

\* The files after get_obs_pred_sad and get_obs_pred_isd have been called on
\* the first k sites of a dataset (a call that raises leaves them as they are).
fit_files(dat_name, model) ==
    LET sites == SitesOf(dat_name)
        after[k \in 0..Len(sites)] ==
            IF k = 0 THEN NoFiles
            ELSE get_obs_pred_isd(
                     get_obs_pred_sad(after[k - 1], dat_name, sites[k], sad_model(model)).files,
                     dat_name, sites[k], model).files
    IN  after[Len(sites)]

fit_files_of == [d \in Datasets |-> [m \in Models |-> fit_files(d, m)]]

\* pred and obs of a bootstrap procedure: the columns of the site's rows,
\* reversed ([::-1]) in bootstrap_SAD.
boot_column(op, rows, col) ==
    IF op = "bootstrap_SAD" THEN Reverse([j \in DOMAIN rows |-> rows[j][col].v])
    ELSE [j \in DOMAIN rows |-> rows[j][col].v]

boot_pred(op, fs, dat_name, site, model) ==
    boot_column(op, site_rows(fs, boot_in_file(op, dat_name, model), site), 3)

boot_obs(op, fs, dat_name, site, model) ==
    boot_column(op, site_rows(fs, boot_in_file(op, dat_name, model), site), 2)

\* dist = dist_for_model[model]: the fitted ssnt_isd_bounded object, or an
\* object of a scipy or collaborator class.
boot_dist(op, dat_name, site, model) ==
    IF op = "bootstrap_ISD" /\ model \in {"ssnt_0", "ssnt_1"}
    THEN ssnt_fit(clean_site[dat_name][site].rows, model)
    ELSE DistObj(boot_dist_cls(op, model), 1, 1, Opq(1))

\* dist.ppf(x) in the loop body; the ISD objects of ASNE and AGSNE return
\* D^2, of which the root is taken.
boot_ppf(op, dist, q) ==
    IF dist.cls = "ssnt_isd_bounded" THEN ppf(dist, q)
    ELSE IF op = "bootstrap_ISD" THEN Pow(Opq(1), 1, 2)
    ELSE Opq(1)

\* The local variables of a run.
boot_locals(op, site, at, status, dist, pred, emp_cdf, r2, ks) ==
    [fn |-> op, site |-> site, at |-> at, status |-> status, i |-> 0,
     dist |-> dist, pred |-> pred, emp_cdf |-> emp_cdf,
     cdf_boot |-> << >>, obs_boot |-> << >>,
     out_list_rsquare |-> r2, out_list_ks |-> ks,
     rsquare_args |-> << >>, ks_args |-> << >>]

\* The lines of a bootstrap procedure up to its loop.
boot_enter(op, fs, dat_name, site, model) ==
    IF boot_prologue(fs, dat_name, site, boot_in_file(op, dat_name, model)) # "ok"
    THEN boot_locals(op, site, "raised",
                     boot_prologue(fs, dat_name, site, boot_in_file(op, dat_name, model)),
                     DistObj("none", 1, 1, Opq(1)), << >>, << >>, << >>, << >>)
    ELSE boot_locals(op, site, "loop", "ok",
                     boot_dist(op, dat_name, site, model),
                     boot_pred(op, fs, dat_name, site, model),
                     get_obs_cdf(boot_obs(op, fs, dat_name, site, model)),
                     <<F_str(dat_name), F_str(site), F_stat("rsquare", 0)>>,
                     <<F_str(dat_name), F_str(site), F_stat("ks", 0)>>)

\* The predicted sequence the loop body hands to mtools.obs_pred_rsquare:
\* np.log10(pred).
boot_pred_arg(st) == st.pred

\* A faulty loop body: the quantiles of a pass are compared with those of the
\* pass before it.
boot_cdf_arg_previous(st) == IF st.i = 0 THEN st.emp_cdf ELSE st.cdf_boot

\* The empirical CDF the loop body subtracts cdf_boot from: emp_cdf.
boot_cdf_arg(st) == st.emp_cdf

\* The end of one pass of the loop body, with the replicate obs_boot and its
\* quantiles cdf_boot: arrays of different lengths do not broadcast, and the
\* pass raises ValueError; else one statistic is appended to each list.
boot_pass_end(st, cdf_boot, obs_boot, ref_pred, ref_cdf) ==
    IF Len(obs_boot) # Len(ref_pred) \/ Len(cdf_boot) # Len(ref_cdf)
    THEN [st EXCEPT !.at = "raised", !.status = "ValueError",
                    !.cdf_boot = cdf_boot, !.obs_boot = obs_boot]
    ELSE [st EXCEPT !.i = st.i + 1, !.cdf_boot = cdf_boot, !.obs_boot = obs_boot,
                    !.out_list_rsquare = Append(st.out_list_rsquare, F_stat("rsquare", st.i + 1)),
                    !.out_list_ks = Append(st.out_list_ks, F_stat("ks", st.i + 1)),
                    !.rsquare_args = Append(st.rsquare_args, [obs |-> obs_boot, pred |-> ref_pred]),
                    !.ks_args = Append(st.ks_args, [emp_cdf |-> ref_cdf, cdf |-> cdf_boot])]

\* The replicate of one pass from its sorted quantiles (inverse-CDF method).
boot_replicate(st, cdf_boot) == [j \in DOMAIN cdf_boot |-> boot_ppf(st.fn, st.dist, cdf_boot[j])]

\* One pass of the loop body.  With rvs the S variates and their cdf values
\* are the collaborator's; else S uniform levels are drawn and sorted.
boot_pass(st, S, model, draw) ==
    IF boot_method(st.fn, model) = "rvs"
    THEN boot_pass_end(st, [j \in 1..S |-> Opq(1)], [j \in 1..S |-> Opq(1)],
                       boot_pred_arg(st), boot_cdf_arg(st))
    ELSE boot_pass_end(st, Sorted(draw), boot_replicate(st, Sorted(draw)),
                       boot_pred_arg(st), boot_cdf_arg(st))

BootOps == {"bootstrap_SAD", "bootstrap_ISD"}

BootEnter ==
    /\ ev = NoEval
    /\ \E op \in BootOps, site \in Range(SitesOf(cfg.dat)) :
         ev' = boot_enter(op, files, cfg.dat, site, cfg.model)
    /\ UNCHANGED <<files, cfg, last, ncalls, pool>>

BootPass ==
    /\ ev.fn \in BootOps
    /\ ev.at = "loop"
    /\ ev.i < cfg.Niter
    /\ \E draw \in UniformDraws(gsne_site[cfg.dat][ev.site].S) :
         ev' = boot_pass(ev, gsne_site[cfg.dat][ev.site].S, cfg.model, draw)
    /\ UNCHANGED <<files, cfg, last, ncalls, pool>>

\* The two wk.write_to_file calls after the loop.
BootWrite ==
    /\ ev.fn \in BootOps
    /\ ev.at = "loop"
    /\ ev.i = cfg.Niter
    /\ files' = write_to_file(
                    write_to_file(files,
                        <<IF ev.fn = "bootstrap_SAD" THEN "SAD_bootstrap_" ELSE "ISD_bootstrap_",
                          cfg.model, "_rsquare.txt">>, ev.out_list_rsquare),
                    <<IF ev.fn = "bootstrap_SAD" THEN "SAD_bootstrap_" ELSE "ISD_bootstrap_",
                      cfg.model, "_ks.txt">>, ev.out_list_ks)
    /\ ev' = [ev EXCEPT !.at = "done"]
    /\ UNCHANGED <<cfg, last, ncalls, pool>>

InitBoot ==
    /\ cfg \in [dat : Datasets, model : Models, Niter : 0..MaxNiter]
    /\ files = fit_files_of[cfg.dat][cfg.model]
    /\ last = NoCall
    /\ ncalls = 0
    /\ ev = NoEval
    /\ NoPool

NextBoot ==
    \/ BootEnter
    \/ BootPass
    \/ BootWrite

SpecBoot == InitBoot /\ [][NextBoot]_vars

----------------------------------------------------------------------------
(* Properties of the batch driver *)

IsPrefix(a, b) == Len(a) <= Len(b) /\ SubSeq(b, 1, Len(a)) = a

BootstrapOps == {"bootstrap_SAD", "bootstrap_ISD", "bootstrap_SDR"}

LikDrivers == {"get_isd_lik_three_models", "get_lik_sp_abd_dbh_three_models"}

ssnt_obs_pred_file(dat_name, scaling) ==
    IF scaling = "transform" THEN <<dat_name, "_obs_pred_isd_ssnt_transform.csv">>
    ELSE <<dat_name, "_obs_pred_isd_ssnt.csv">>

LaterSites(dat_name, site) ==
    LET sq == SitesOf(dat_name)
    IN  {sq[j] : j \in {j \in DOMAIN sq : \E i \in DOMAIN sq : sq[i] = site /\ i < j}}

\* C4: when the computation for one site raises in a likelihood driver, the
\* call still ends normally and the row of every later site above the cutoff
\* is written.  Nothing catches the exception: the property is violated.
C4_FailureIsolated ==
    (last.op \in LikDrivers /\ last.site # "")
        => /\ last.status = "ok"
           /\ \A s \in LaterSites(cfg.dat, last.site) :
                isd_lik_rows_site[cfg.dat][s][last.arg].included
                    => \E i \in DOMAIN last.written : last.written[i][2] = F_str(s)

\* C5: a bootstrap procedure called on a site that clean_data_agsne turns
\* into None returns normally and writes nothing.  get_GSNE raises on None:
\* the property is violated.
C5_SkipNotFailure ==
    (last.op \in BootstrapOps /\ clean_site[cfg.dat][last.site].none)
        => last.status = "ok" /\ last.written = << >>

\* The rows of one site among the rows the last call handed to a writer.
written_of(site) == SelectSeq(last.written, LAMBDA row : row[1] = F_str(site))

\* A sequence of numbers in ascending order.
Ascending(sq) == \A i \in 1..(Len(sq) - 1) : ~Lt(sq[i + 1], sq[i])

\* Rows (site, observed, predicted) of N individuals: the observed values
\* ascend and the predicted value at rank i is dist.ppf((i + 0.5) / N).
RankAligned(rows, N, dist) ==
    /\ Len(rows) = N
    /\ Ascending([i \in DOMAIN rows |-> rows[i][2].v])
    /\ \A i \in DOMAIN rows : rows[i][3].v = ppf(dist, Rat(2 * (i - 1) + 1, 2 * N))

\* Rows whose predictions are a collaborator's: N of them, observed ascending.
RankAlignedOpaque(rows, N) ==
    /\ Len(rows) = N
    /\ Ascending([i \in DOMAIN rows |-> rows[i][2].v])

\* C11: a call of get_obs_pred_isd on the cleaned data of a site, for each of
\* the four models, and a call of get_ssnt_obs_pred_isd, for each site above
\* the cutoff, writes N rows for the site with the observed sizes ascending
\* and the prediction of rank i equal to the model's ppf at (i + 0.5) / N.
\* For 'asne' the call raises TypeError before it writes: the property is
\* violated.
C11_RankAligned ==
    /\ (last.op = "get_obs_pred_isd" /\ ~clean_site[cfg.dat][last.site].none)
         => IF cfg.model \in {"ssnt_0", "ssnt_1"}
            THEN RankAligned(last.written, Len(clean_site[cfg.dat][last.site].rows),
                             ssnt_fit(clean_site[cfg.dat][last.site].rows, cfg.model))
            ELSE RankAlignedOpaque(last.written, Len(clean_site[cfg.dat][last.site].rows))
    /\ last.op = "get_ssnt_obs_pred_isd"
         => \A s \in Range(SitesOf(cfg.dat)) :
               S0_of(SiteData(cfg.dat, s)) > last.arg
                   => RankAligned(written_of(s), Len(SiteData(cfg.dat, s)),
                                  ssnt_fit_dbh2(SiteData(cfg.dat, s), last.site = "transform"))

\* C12: a site is included by get_ssnt_obs_pred_isd and by the likelihood
\* drivers exactly when it has at least cutoff species, and the cleaned data
\* of a site are kept by clean_data_agsne whenever it has at least cutoff_sp
\* species and cutoff_genera genera of defined name.  The code compares with
\* >: a site with exactly cutoff species is left out, and the property is
\* violated.
C12_CutoffInclusive ==
    /\ (last.op \in LikDrivers \cup {"get_ssnt_obs_pred_isd"} /\ last.status = "ok"
          /\ (last.op \in LikDrivers => last.site = ""))
         => \A s \in Range(SitesOf(cfg.dat)) :
               (\E i \in DOMAIN last.written : F_str(s) \in Range(last.written[i]))
                   <=> S0_of(SiteData(cfg.dat, s)) >= last.arg
    /\ (last.op \in BootstrapOps
          /\ LET kept == SelectSeq(SiteData(cfg.dat, last.site), LAMBDA r : r.gen # 0)
             IN  /\ (Len(SiteData(cfg.dat, last.site)) - Len(kept)) * MaxRemovalDen
                       <= MaxRemovalNum * Len(SiteData(cfg.dat, last.site))
                 /\ Cardinality({r.sp : r \in Range(kept)}) >= cutoff_sp
                 /\ Cardinality({r.gen : r \in Range(kept)}) >= cutoff_genera)
         => ~clean_site[cfg.dat][last.site].none

\* The number of free parameters mtools.AICc is handed for the columns 3, 4
\* and 5 of a line of isd_aicc_three_models.txt: METE, SSNT, SSNT transformed.
aicc_k == <<3, 2, 2>>

\* A value that prints as a number (nan and inf included).
IsNumber(x) == ~IsErr(x)

BootLoopEntered ==
    /\ last.op \in BootstrapOps
    /\ last.arg >= 1
    /\ ~clean_site[cfg.dat][last.site].none
    /\ boot_in_file(last.op, cfg.dat, cfg.model) \in DOMAIN files
    /\ site_rows(files, boot_in_file(last.op, cfg.dat, cfg.model), last.site) # << >>

\* C15: a bootstrap procedure samples with rvs exactly when the object of the
\* model has a random-variate generator and with sorted uniform quantiles
\* through ppf otherwise; it never fails for calling rvs on an object that has
\* none.  bootstrap_SDR calls rvs on ssnt_isd_bounded: the property is
\* violated.
C15_MethodFollowsCapability ==
    BootLoopEntered
        => /\ boot_method(last.op, cfg.model) = "rvs"
                <=> has_rvs(boot_dist_cls(last.op, cfg.model))
           /\ last.status # "AttributeError"

\* The output files of bootstrap_ISD and of bootstrap_SAD.
ISD_bootstrap_files == {<<"ISD_bootstrap_", m, k>> : m \in Models, k \in {"_rsquare.txt", "_ks.txt"}}

SAD_bootstrap_files == {<<"SAD_bootstrap_", m, k>> : m \in Models, k \in {"_rsquare.txt", "_ks.txt"}}

\* A call created the file or changed what it holds.
Touched(f) ==
    /\ f \in DOMAIN files'
    /\ f \in DOMAIN files => files'[f] # files[f]

\* C17: only bootstrap_ISD writes to the ISD_bootstrap_<model>_* files and
\* only bootstrap_SAD to the SAD_bootstrap_<model>_* files.  bootstrap_SDR
\* appends its line to ISD_bootstrap_<model>_rsquare.txt: the property is
\* violated.
C17_OwnFile ==
    [][/\ \A f \in ISD_bootstrap_files : Touched(f) => last'.op = "bootstrap_ISD"
       /\ \A f \in SAD_bootstrap_files : Touched(f) => last'.op = "bootstrap_SAD"]_vars

\* The fit operation that writes the observed/predicted file of a bootstrap
\* procedure.
fit_op_of(op) ==
    CASE op = "bootstrap_SAD" -> "get_obs_pred_sad"
      [] op = "bootstrap_ISD" -> "get_obs_pred_isd"
      [] OTHER -> "get_obs_pred_sdr"

\* C18: when a bootstrap procedure is called for a site right after the
\* matching fit operation ran on the cleaned data of that site for the same
\* model, the file it opens exists and holds rows of the site.
\* get_obs_pred_isd raises for 'asne' and writes no file: the property is
\* violated.
C18_FitFeedsBootstrap ==
    [][(/\ last'.op \in BootstrapOps
        /\ last.op = fit_op_of(last'.op)
        /\ last.site = last'.site
        /\ ~clean_site[cfg.dat][last.site].none)
          => /\ last'.status # "IOError"
             /\ boot_in_file(last'.op, cfg.dat, cfg.model) \in DOMAIN files
             /\ site_rows(files, boot_in_file(last'.op, cfg.dat, cfg.model), last.site)
                   # << >>]_vars

\* The length of the observed/predicted sequence of the run's site: S for the
\* SAD, N for the ISD.
boot_n(op, g) == IF op = "bootstrap_SAD" THEN g.S ELSE g.N

\* C14: in a run of bootstrap_SAD or bootstrap_ISD that samples by the
\* inverse-CDF method, every pass of the loop draws n quantiles (S for the
\* SAD, N for the ISD), so that the replicate, its sorted quantiles, the
\* predicted sequence and the empirical CDF all have length n, the replicate
\* is the ppf of the quantiles and is non-decreasing, and the pass does not
\* raise.  bootstrap_ISD draws S quantiles: on a site with N # S the
\* property is violated.
C14_ReplicateLength ==
    (ev.fn \in BootOps /\ boot_method(ev.fn, cfg.model) = "ppf" /\ ev.cdf_boot # << >>)
        => /\ ev.status = "ok"
           /\ Len(ev.cdf_boot) = boot_n(ev.fn, gsne_site[cfg.dat][ev.site])
           /\ Len(ev.obs_boot) = Len(ev.cdf_boot)
           /\ Len(ev.pred) = Len(ev.cdf_boot)
           /\ Len(ev.emp_cdf) = Len(ev.cdf_boot)
           /\ Ascending(ev.cdf_boot)
           /\ ev.obs_boot = boot_replicate(ev, ev.cdf_boot)
           /\ Ascending(ev.obs_boot)

----------------------------------------------------------------------------
(* The worker pool: every worker runs get_obs_pred_isd for its own site of  *)
(* the run's dataset and model, so all of them append to one file, each     *)
(* through its own buffered handle.  A row is written into the handle's     *)
(* buffer; a full buffer is appended to the file by one write, the rest at  *)
(* close().  BufCap is the buffer's size in fields.                         *)

NWorkers == 2
BufCap == 16

Workers == 1..NWorkers

\* The fields of the rows in the order csv.writer.writerows emits them, each
\* tagged with its writer, its row and its place in the row.
RowFields(w, rows) ==
    LET width == IF rows = << >> THEN 1 ELSE Len(rows[1])
    IN  [k \in 1..(width * Len(rows)) |->
            [w |-> w, row |-> ((k - 1) \div width) + 1, fld |-> ((k - 1) % width) + 1,
             of |-> width]]

\* get_obs_pred_isd up to the open(): the results array, or the exception.
WStart(w) ==
    /\ pc[w].at = "start"
    /\ LET o == get_obs_pred_isd(NoFiles, cfg.dat, pc[w].site, cfg.model)
       IN  IF o.status = "ok"
           THEN /\ pc' = [pc EXCEPT ![w].at = "writing"]
                /\ todo' = [todo EXCEPT ![w] = RowFields(w, o.written)]
           ELSE /\ pc' = [pc EXCEPT ![w].at = "raised"]
                /\ todo' = todo
    /\ UNCHANGED <<files, cfg, last, ncalls, ev, buf, disk>>

\* One row goes into the buffer; when that fills the buffer, the full buffer
\* is appended to the file.
WWriteRow(w) ==
    /\ pc[w].at = "writing"
    /\ todo[w] # << >>
    /\ LET width == todo[w][1].of
           all == buf[w] \o SubSeq(todo[w], 1, width)
       IN  /\ todo' = [todo EXCEPT ![w] = SubSeq(todo[w], width + 1, Len(todo[w]))]
           /\ IF Len(all) >= BufCap
              THEN /\ disk' = disk \o SubSeq(all, 1, BufCap)
                   /\ buf' = [buf EXCEPT ![w] = SubSeq(all, BufCap + 1, Len(all))]
              ELSE /\ disk' = disk
                   /\ buf' = [buf EXCEPT ![w] = all]
    /\ UNCHANGED <<files, cfg, last, ncalls, ev, pc>>

\* f1_write.close(): what the buffer holds is appended to the file.
WClose(w) ==
    /\ pc[w].at = "writing"
    /\ todo[w] = << >>
    /\ disk' = disk \o buf[w]
    /\ buf' = [buf EXCEPT ![w] = << >>]
    /\ pc' = [pc EXCEPT ![w].at = "done"]
    /\ UNCHANGED <<files, cfg, last, ncalls, ev, todo>>

\* The pool hands every worker a site of its own.
InitPool ==
    /\ files = NoFiles
    /\ cfg \in [dat : Datasets, model : Models, Niter : {0}]
    /\ last = NoCall
    /\ ncalls = 0
    /\ ev = NoEval
    /\ \E job \in [Workers -> Range(SitesOf(cfg.dat))] :
         /\ \A v, w \in Workers : v # w => job[v] # job[w]
         /\ pc = [w \in Workers |-> [at |-> "start", site |-> job[w]]]
    /\ todo = [w \in Workers |-> << >>]
    /\ buf = [w \in Workers |-> << >>]
    /\ disk = << >>

NextPool ==
    \/ \E w \in Workers : WStart(w)
    \/ \E w \in Workers : WWriteRow(w)
    \/ \E w \in Workers : WClose(w)

SpecPool == InitPool /\ [][NextPool]_vars

PoolDone == \A w \in DOMAIN pc : pc[w].at \in {"done", "raised"}

\* Every row of the file is whole: its fields follow one another.
WholeRows(d) ==
    \A p \in DOMAIN d :
        d[p].fld < d[p].of
            => /\ p + 1 \in DOMAIN d
               /\ d[p + 1].w = d[p].w
               /\ d[p + 1].row = d[p].row
               /\ d[p + 1].fld = d[p].fld + 1

\* The rows of one worker's site form one block of the file.
WholeBlocks(d) ==
    \A p, r \in DOMAIN d :
        (p < r /\ d[p].w = d[r].w) => \A m \in p..r : d[m].w = d[p].w

\* C3: when the workers are done, the shared file consists of whole rows and
\* of whole site blocks.  The code takes no lock and has no single writer:
\* the property is violated.
C3_WholeRowsAndBlocks == PoolDone => WholeRows(disk) /\ WholeBlocks(disk)

----------------------------------------------------------------------------
(* Evaluations: a distribution object is constructed and one of its methods *)
(* is called, or a likelihood evaluator is called, on inputs of the grid.   *)

MaxK == 3
MaxP == 3
MaxX == 6
MaxN == 3

\* The quantile levels 1 - 2^-k, whose logarithms are on the grid, and 1/3,
\* whose logarithm is not.
Quantiles == {Rat(IPow(2, k) - 1, IPow(2, k)) : k \in 1..MaxK} \cup {Rat(1, 3)}

\* Positive parameters: the rationals n/d and their multiples of ln 2.
PositiveParams == {Fin(n, d, e) : n \in 1..MaxP, d \in 1..MaxP, e \in {0, 1}}

\* Parameters a constructor can also be handed: zero, a negative number, the
\* inf and the nan a fit on degenerate sizes produces.
OtherParams == {Zero, Int2Num(-1), Fin(-1, 2, 1), Inf(1), NaN}

\* The exponents alpha of the bounded form: 1 and 2/3 as the code uses them,
\* and 1/2, 1/3, 2.
Alphas == {<<1, 1>>, <<2, 3>>, <<1, 2>>, <<1, 3>>, <<2, 1>>}

\* The sizes at which a pdf is evaluated: 0, 1/2, 1, 3/2, ...
Sizes == {Rat(m, 2) : m \in 0..MaxX}

\* Community state variables with their collaborator values: lambda2 of
\* mete.get_lambda2, phi of md.trunc_logser.pmf inside its support, beta of
\* mete.get_beta.  N < E, lambda2 > 0, 0 < phi < 1, beta > 0.
Communities ==
    {[N |-> MaxN, E |-> E, lambda2 |-> Ln2(1), phi |-> Rat(1, 2 * k), beta |-> Ln2(k)] :
        E \in {MaxN + 1, MaxN + 2}, k \in {1, 2}}

\* The abundances and the energies of a species handed to the evaluators.
Abundances == 0..MaxN
Energies == {Rat(m, 2) : m \in 0..(2 * MaxN + 2)}

NoRun == [dat |-> "d1", model |-> "ssnt_0", Niter |-> 0]

Idle ==
    /\ files = NoFiles
    /\ cfg = NoRun
    /\ last = NoCall
    /\ ncalls = 0

\* ssnt_isd(d_over_g), ssnt_isd_transform(d_over_g), ssnt_isd_bounded(alpha, par)
Construct ==
    /\ ev = NoEval
    /\ \E par \in PositiveParams \cup OtherParams :
         \/ ev' = [fn |-> "init", arg |-> par, dist |-> ssnt_isd_init(par)]
         \/ ev' = [fn |-> "init", arg |-> par, dist |-> ssnt_isd_transform_init(par)]
         \/ \E a \in Alphas :
              ev' = [fn |-> "init", arg |-> par, dist |-> ssnt_isd_bounded_init(a[1], a[2], par)]
    /\ UNCHANGED <<files, cfg, last, ncalls, pool>>

\* dist.cdf(dist.ppf(q)) on a constructed object
EvalRoundTrip ==
    /\ ev.fn = "init"
    /\ ev.dist.ok
    /\ \E q \in Quantiles :
         LET x == ppf(ev.dist, q)
         IN  ev' = [fn |-> "cdf_ppf", arg |-> ev.arg, dist |-> ev.dist, q |-> q, x |-> x,
                    out |-> cdf(ev.dist, x)]
    /\ UNCHANGED <<files, cfg, last, ncalls, pool>>

\* dist.pdf(x) on a constructed object
EvalPdf ==
    /\ ev.fn = "init"
    /\ ev.dist.ok
    /\ \E x \in Sizes :
         ev' = [fn |-> "pdf", arg |-> ev.arg, dist |-> ev.dist, x |-> x,
                out |-> pdf(ev.dist, x)]
    /\ UNCHANGED <<files, cfg, last, ncalls, pool>>

\* lik_mete_sp(n, epsilon, S, N, E, loglik)
EvalLikMeteSp ==
    /\ ev = NoEval
    /\ \E n \in Abundances, epsilon \in Energies, c \in Communities, loglik \in BOOLEAN :
         ev' = [fn |-> "lik_mete_sp", n |-> n, epsilon |-> epsilon, c |-> c,
                loglik |-> loglik,
                out |-> lik_mete_sp(n, epsilon, c.lambda2, c.phi, c.N, c.E, loglik),
                logs |-> lik_mete_sp_logs(n, epsilon, c.lambda2, c.phi, c.N, c.E, loglik)]
    /\ UNCHANGED <<files, cfg, last, ncalls, pool>>

\* lik_ssnt_sp(n, epsilon, S, N, E, loglik)
EvalLikSsntSp ==
    /\ ev = NoEval
    /\ \E n \in Abundances, epsilon \in Energies, c \in Communities, loglik \in BOOLEAN :
         ev' = [fn |-> "lik_ssnt_sp", n |-> n, epsilon |-> epsilon, c |-> c,
                loglik |-> loglik,
                out |-> lik_ssnt_sp(n, epsilon, c.beta, c.N, c.E, loglik),
                logs |-> lik_ssnt_sp_logs(n, epsilon, c.beta, c.N, c.E, loglik)]
    /\ UNCHANGED <<files, cfg, last, ncalls, pool>>

\* The lists of scaled diameters of one species: one or two sizes from 1 on.
DbhLists ==
    LET big == {x \in Sizes : Ge(x, LowerBound)}
    IN  {<<x>> : x \in big} \cup {<<x, y>> : x \in big, y \in big}

\* lik_sp_abd_dbh_ssnt(sad_par, isd_dist, n, dbh_list, log) and
\* lik_sp_abd_dbh_mete(sad_par, sad_upper, iisd_dist, n, dbh_list, log)
EvalLikSpAbdDbh ==
    /\ ev.fn = "init"
    /\ ev.dist.ok
    /\ ev.dist.cls = "ssnt_isd_bounded"
    /\ \E dbh_list \in DbhLists, log \in BOOLEAN :
         \/ ev' = [fn |-> "lik_sp_abd_dbh_ssnt", arg |-> ev.arg, dist |-> ev.dist,
                   n |-> Len(dbh_list), dbh_list |-> dbh_list, loglik |-> log,
                   out |-> lik_sp_abd_dbh_ssnt(ev.dist, Len(dbh_list), dbh_list, log)]
         \/ ev' = [fn |-> "lik_sp_abd_dbh_mete", arg |-> ev.arg, dist |-> ev.dist,
                   n |-> Len(dbh_list), dbh_list |-> dbh_list, loglik |-> log,
                   out |-> lik_sp_abd_dbh_mete(Len(dbh_list), dbh_list, log)]
    /\ UNCHANGED <<files, cfg, last, ncalls, pool>>

InitEval ==
    /\ Idle
    /\ ev = NoEval
    /\ NoPool

NextEval ==
    \/ Construct
    \/ EvalRoundTrip
    \/ EvalPdf
    \/ EvalLikMeteSp
    \/ EvalLikSsntSp
    \/ EvalLikSpAbdDbh

SpecEval == InitEval /\ [][NextEval]_vars

----------------------------------------------------------------------------
(* Properties of the evaluations *)

LikEvaluators == {"lik_mete_sp", "lik_ssnt_sp"}

\* C6: a call of lik_mete_sp or lik_ssnt_sp with n < 1 or epsilon < n reports
\* an error and returns no number.  The code validates nothing: the property
\* is violated.
C6_InvalidInputRejected ==
    (ev.fn \in LikEvaluators /\ (ev.n < 1 \/ Lt(ev.epsilon, Int2Num(ev.n))))
        => IsErr(ev.out)

\* C7: a constructor handed a parameter that is not a positive number raises.
\* The constructors store what they are given: the property is violated.
C7_NonPositiveRejected ==
    (ev.fn = "init" /\ ev.arg \notin PositiveParams) => ~ev.dist.ok

\* C8: with loglik = True, n >= 1 and epsilon = n, both evaluators return a
\* finite value, every logarithm they take is of a positive number, and
\* lik_mete_sp does not take the logarithm of epsilon - n.
C8_DegenerateCase ==
    (ev.fn \in LikEvaluators /\ ev.loglik /\ ev.n >= 1 /\ ev.epsilon = Int2Num(ev.n))
        => /\ IsFinite(ev.out)
           /\ \A i \in DOMAIN ev.logs : SignOf(ev.logs[i]) = 1
           /\ ev.fn = "lik_mete_sp" =>
                \A i \in DOMAIN ev.logs : ev.logs[i] # Sub(ev.epsilon, Int2Num(ev.n))

C8_Witness ==
    /\ ev.fn = "lik_mete_sp"
    /\ ev.loglik
    /\ ev.n = 2
    /\ ev.epsilon = Int2Num(2)
    /\ IsFinite(ev.out)
    /\ Len(ev.logs) = 2

\* C9: for a positive parameter and q in (0,1), cdf(ppf(q)) is a finite
\* number and, wherever ppf(q) or the result is on the grid of exact numbers,
\* equal to q; the ppf of the bounded form is then at least 1.
C9_RoundTrip ==
    (ev.fn = "cdf_ppf" /\ ev.arg \in PositiveParams)
        => /\ IsFinite(ev.x) /\ IsFinite(ev.out)
           /\ IsFin(ev.x) => ev.out = ev.q
           /\ IsFin(ev.out) => ev.out = ev.q
           /\ (ev.dist.cls = "ssnt_isd_bounded" /\ IsFin(ev.x)) => Ge(ev.x, One)

C9_Witness ==
    /\ ev.fn = "cdf_ppf"
    /\ ev.dist.cls = "ssnt_isd_bounded"
    /\ ev.dist.an = 2 /\ ev.dist.ad = 3
    /\ ev.arg = Ln2(1)
    /\ ev.q = Rat(7, 8)
    /\ ev.x = Int2Num(8)
    /\ ev.out = ev.q

\* C10: the pdf of ssnt_isd_bounded with alpha = 1 and par > 0 is 0 below 1
\* and par * exp(-par * (x - 1)) from 1 on.
C10_ShiftedExponential ==
    (ev.fn = "pdf" /\ ev.dist.cls = "ssnt_isd_bounded" /\ ev.dist.an = 1 /\ ev.dist.ad = 1
       /\ ev.arg \in PositiveParams)
        => LET shifted == Mul(ev.arg, Exp(Neg(Mul(ev.arg, Sub(ev.x, One)))))
           IN  IF Lt(ev.x, One) THEN ev.out = Zero
               ELSE /\ IsFinite(ev.out)
                    /\ IsFin(shifted) => ev.out = shifted
                    /\ IsFin(ev.out) => ev.out = shifted

C10_Witness ==
    /\ ev.fn = "pdf"
    /\ ev.dist.cls = "ssnt_isd_bounded"
    /\ ev.dist.an = 1 /\ ev.dist.ad = 1
    /\ ev.arg = Ln2(2)
    /\ ev.x = Rat(3, 2)
    /\ ev.out = Ln2(1)

\* The value a likelihood evaluator returns for the inputs of the last
\* evaluation with the flag left at its default True.
log_mode_value ==
    CASE ev.fn = "lik_mete_sp" ->
            lik_mete_sp(ev.n, ev.epsilon, ev.c.lambda2, ev.c.phi, ev.c.N, ev.c.E, TRUE)
      [] ev.fn = "lik_ssnt_sp" ->
            lik_ssnt_sp(ev.n, ev.epsilon, ev.c.beta, ev.c.N, ev.c.E, TRUE)
      [] ev.fn = "lik_sp_abd_dbh_ssnt" ->
            lik_sp_abd_dbh_ssnt(ev.dist, ev.n, ev.dbh_list, TRUE)
      [] OTHER -> lik_sp_abd_dbh_mete(ev.n, ev.dbh_list, TRUE)

\* The inputs of the last evaluation are valid: n >= 1 and epsilon >= n for
\* the joint evaluators, a positive parameter for the fitted distribution.
ValidLikInput ==
    IF ev.fn \in LikEvaluators
    THEN ev.n >= 1 /\ Ge(ev.epsilon, Int2Num(ev.n))
    ELSE ev.arg \in PositiveParams

\* C19: called on a valid input with the flag set to False, each of the four
\* likelihood evaluators returns a number, which is exp of what it returns
\* with the flag at its default (equal wherever either is on the grid of
\* exact numbers, and positive).  The non-log branches of lik_ssnt_sp and of
\* lik_mete_sp for epsilon # n call np.factorial and raise: the property is
\* violated.
C19_ModesAgree ==
    (ev.fn \in LikEvaluators \cup {"lik_sp_abd_dbh_ssnt", "lik_sp_abd_dbh_mete"}
       /\ ValidLikInput /\ ~ev.loglik)
        => /\ IsFinite(ev.out)
           /\ SignOf(ev.out) \in {0, 1}
           /\ IsFin(Exp(log_mode_value)) => ev.out = Exp(log_mode_value)

====
